---- MODULE Spec2Model ----
(***************************************************************************)
(* Model of the table viewer of crypto_tree.py: the App's data flow        *)
(* (refresh, apply_filter, sort_by), its refresh timer                     *)
(* (apply_auto_refresh and the _tick callback) and fetch_listings.         *)
(*                                                                         *)
(* Conventions.                                                            *)
(*  - A Python str is a sequence of one-character strings.                 *)
(*  - A value that may be None is a sequence of length <= 1: << >> is      *)
(*    None and <<v>> is the value v.                                       *)
(*  - Numbers of the payload are integers.  A value of the payload        *)
(*    carries its Python type: PyInt(n) or PyStr(s).                         *)
(*  - A handler runs until it returns or until it shows an error dialog.   *)
(*    messagebox.showerror waits in the event loop until the dialog is     *)
(*    answered: meanwhile its grab keeps the widgets of the window from    *)
(*    the user, but a pending timer fires and its _tick runs inside the    *)
(*    waiting handler.  A step of the model is a handler from its start to *)
(*    its return or to its dialog, or a handler from the answer to its     *)
(*    dialog to its return.                                                *)
(*  - A Tk timer id is a name that is only ever compared for equality;     *)
(*    `after` returns the smallest id that is neither pending nor still    *)
(*    held in _after_id.                                                   *)
(*  - A Treeview item is the row it was inserted for and its tag; the      *)
(*    text of the cells (fmt_price, fmt_pct, ...) is not modelled.         *)
(***************************************************************************)
EXTENDS Integers, Sequences, FiniteSets, TLC

VARIABLES rows_raw, search_var, current_sort, tree, after_id, timers, dialogs,
          ev

vars ==
    <<rows_raw, search_var, current_sort, tree, after_id, timers, dialogs, ev>>

----------------------------------------------------------------------------
(* Bounds *)

\* longest list of coins a response carries
MaxRows == 2

----------------------------------------------------------------------------
(* Python values *)

None == << >>

Some(v) == <<v>>

IsNone(x) == x = None

\* an int and a str of the payload
PyInt(n) == [type |-> "int", num |-> n, str |-> << >>]

PyStr(s) == [type |-> "str", num |-> 0, str |-> s]

Reverse(s) == [i \in 1..Len(s) |-> s[Len(s) + 1 - i]]

\* code points of the characters used
Ord(c) ==
    CASE c = " " -> 32
      [] c = "+" -> 43
      [] c = "-" -> 45
      [] c = "0" -> 48
      [] c = "1" -> 49
      [] c = "2" -> 50
      [] c = "3" -> 51
      [] c = "5" -> 53
      [] c = "6" -> 54
      [] c = "A" -> 65
      [] c = "B" -> 66
      [] c = "N" -> 78
      [] c = "a" -> 97
      [] c = "b" -> 98
      [] c = "e" -> 101
      [] c = "n" -> 110
      [] c = "o" -> 111
      [] c = "x" -> 120

IsSpace(c) == c = " "

IsDigit(c) == c \in {"0", "1", "2", "3", "5", "6"}

DigitVal(c) == Ord(c) - 48

\* str.lower(), character by character
LowerChar(c) ==
    CASE c = "A" -> "a"
      [] c = "B" -> "b"
      [] c = "N" -> "n"
      [] OTHER -> c

Lower(s) == [i \in 1..Len(s) |-> LowerChar(s[i])]

RECURSIVE LStrip(_)
LStrip(s) ==
    IF s # << >> /\ IsSpace(Head(s)) THEN LStrip(Tail(s)) ELSE s

\* str.strip()
Strip(s) == Reverse(LStrip(Reverse(LStrip(s))))

\* `needle in hay` for two str
Contains(hay, needle) ==
    \E i \in 0..(Len(hay) - Len(needle)) :
        \A j \in 1..Len(needle) : hay[i + j] = needle[j]

DigitChar(d) ==
    CASE d = 0 -> "0" [] d = 1 -> "1" [] d = 2 -> "2" [] d = 3 -> "3"
      [] d = 4 -> "4" [] d = 5 -> "5" [] d = 6 -> "6" [] d = 7 -> "7"
      [] d = 8 -> "8" [] d = 9 -> "9"

\* str(n) for n >= 0
RECURSIVE Digits(_)
Digits(n) ==
    IF n < 10 THEN <<DigitChar(n)>>
    ELSE Digits(n \div 10) \o <<DigitChar(n % 10)>>

\* f"{x}" for a str, an int or None
Format(x) ==
    IF IsNone(x) THEN <<"N", "o", "n", "e">>
    ELSE IF x[1].type = "str" THEN x[1].str
    ELSE IF x[1].num < 0 THEN <<"-">> \o Digits(0 - x[1].num)
    ELSE Digits(x[1].num)

RECURSIVE DigitsVal(_, _)
DigitsVal(s, acc) ==
    IF s = << >> THEN acc ELSE DigitsVal(Tail(s), 10 * acc + DigitVal(Head(s)))

\* int(text): surrounding whitespace is dropped, one optional sign, then
\* one or more digits; anything else raises ValueError
ParseInt(text) ==
    LET t == Strip(text)
        signed == t # << >> /\ Head(t) \in {"+", "-"}
        digits == IF signed THEN Tail(t) ELSE t
        ok == digits # << >> /\ \A i \in 1..Len(digits) : IsDigit(digits[i])
    IN  IF ~ok THEN [ok |-> FALSE, val |-> 0]
        ELSE [ok |-> TRUE,
              val |-> IF signed /\ Head(t) = "-" THEN 0 - DigitsVal(digits, 0)
                      ELSE DigitsVal(digits, 0)]

\* a < b for two str
RECURSIVE StrLess(_, _)
StrLess(a, b) ==
    IF b = << >> THEN FALSE
    ELSE IF a = << >> THEN TRUE
    ELSE IF Head(a) # Head(b) THEN Ord(Head(a)) < Ord(Head(b))
    ELSE StrLess(Tail(a), Tail(b))

\* a or b: None, "" and 0 are false
Or(a, b) ==
    IF IsNone(a) \/ a = Some(PyStr(<< >>)) \/ a = Some(PyInt(0)) THEN b ELSE a

----------------------------------------------------------------------------
(* Configuration *)

DEFAULT_LIMIT == <<"2", "0", "0">>

AUTO_REFRESH_MS == <<"0">>

columns ==
    <<"rank", "symbol", "name", "price", "pct24h", "pct7d", "mcap", "vol24h",
      "updated">>

Columns == {columns[i] : i \in 1..Len(columns)}

----------------------------------------------------------------------------
(* The listings payload *)

\* A JSON value carries its type in .json; a key of an object that is
\* absent is None.
JsonNull == [json |-> "null"]

JsonNumber == [json |-> "number"]

Quote(price, pct24h, pct7d, mcap, vol24h, updated) ==
    [json |-> "object", price |-> price, percent_change_24h |-> pct24h,
     percent_change_7d |-> pct7d, market_cap |-> mcap, volume_24h |-> vol24h,
     last_updated |-> updated]

\* the {} that .get("quote", {}).get("USD", {}) falls back to: every key
\* is missing
EmptyQuote == Quote(None, None, None, None, None, None)

Coin(rank, symbol, name, quote, updated) ==
    [json |-> "object", cmc_rank |-> rank, symbol |-> symbol, name |-> name,
     quote |-> quote, last_updated |-> updated]

\* no quote at all; the timestamp is the coin's own
K1 ==
    Coin(Some(PyInt(1)), Some(PyStr(<<"A", "B">>)), Some(PyStr(<<"A">>)), None,
         Some(PyStr(<<"1">>)))

K2 ==
    Coin(None, Some(PyStr(<<"B">>)), Some(PyStr(<<"b", "a">>)),
         Some(Quote(Some(PyInt(5)), Some(PyInt(0 - 1)), Some(PyInt(2)),
                    Some(PyInt(7)), Some(PyInt(1)), Some(PyStr(<<"2">>)))),
         None)

\* an empty quote timestamp: `or` falls through to the coin's own
K3 ==
    Coin(None, Some(PyStr(<<"B">>)), Some(PyStr(<<"a">>)),
         Some(Quote(Some(PyInt(3)), Some(PyInt(0)), None, Some(PyInt(7)), None,
                    Some(PyStr(<< >>)))),
         Some(PyStr(<<"1">>)))

Pool == {K1, K2, K3}

\* a coin whose "quote" is null
KNullQuote ==
    Coin(None, Some(PyStr(<<"B">>)), Some(PyStr(<<"b">>)), Some(JsonNull), None)

\* a coin whose "cmc_rank" is the string "2"
KStrRank ==
    Coin(Some(PyStr(<<"2">>)), Some(PyStr(<<"B">>)), Some(PyStr(<<"b">>)), None,
         None)

\* the items of "data" that refresh cannot read
BadItems == {JsonNumber, KNullQuote}

\* the lists of distinct coins a response can carry
Payloads ==
    UNION {{s \in [1..n -> Pool] : \A i, j \in 1..n : s[i] = s[j] => i = j} :
           n \in 0..MaxRows}

\* what a list carries before the item that goes wrong: nothing or one
\* coin
Before == {p \in {<< >>} \cup {<<k>> : k \in Pool} : Len(p) < MaxRows}

\* the lists that carry an item refresh cannot read
BadPayloads == {Append(p, b) : p \in Before, b \in BadItems}

\* the lists that carry a coin whose rank is a str
StrRankPayloads == {Append(p, KStrRank) : p \in Before}

\* What the request meets: requests.get raising, raise_for_status raising,
\* r.json() raising, a JSON body that is not an object, an object with no
\* "data" key, an object whose "data" is null, an object whose "data" is a
\* list with an item that is not a coin with a quote object, an object
\* whose "data" is a list of coins one of which has a value of another type
\* than the column's, or an object with a list of coins under "data"
FailureKinds ==
    {"connection", "http", "badjson", "notdict", "nodata", "datanull",
     "baditem", "badvalue"}

Responses ==
    [kind : FailureKinds \ {"baditem", "badvalue"}, data : {<< >>}]
        \cup [kind : {"baditem"}, data : BadPayloads]
        \cup [kind : {"badvalue"}, data : StrRankPayloads]
        \cup [kind : {"ok"}, data : Payloads]

\* no request is made
NoResponse == [kind |-> "none", data |-> << >>]

\* the exception classes that derive from Exception
ExceptionClasses ==
    {"ConnectionError", "HTTPError", "JSONDecodeError", "AttributeError",
     "TypeError"}

\* what the try block of fetch_listings raises on a response
Raised(resp) ==
    CASE resp.kind = "connection" -> "ConnectionError"
      [] resp.kind = "http" -> "HTTPError"
      [] resp.kind = "badjson" -> "JSONDecodeError"
      [] resp.kind = "notdict" -> "AttributeError"
      [] OTHER -> "none"

\* how fetch_listings ends on a response: in the except clause that caught
\* what the try block raised, or with the body it read
Outcome(resp) ==
    CASE Raised(resp) = "HTTPError" -> "HTTPError"
      [] Raised(resp) \in ExceptionClasses \ {"HTTPError"} -> "Exception"
      [] OTHER -> resp.kind

\* a Python list, and the None that a null "data" is read as
PyList(items) == [type |-> "list", items |-> items]

PyNone == [type |-> "NoneType", items |-> << >>]

\* fetch_listings(limit) on a response: the value returned, the dialogs
\* shown and the exception that leaves the function ("none": it returned).
\* limit only goes into the request's parameters.
fetch_listings(limit, resp) ==
    LET e == Raised(resp)
    IN  IF e = "none"
        THEN [ret |-> CASE resp.kind = "nodata" -> PyList(<< >>)
                        [] resp.kind = "datanull" -> PyNone
                        [] OTHER -> PyList(resp.data),
              calls |-> << >>, exc |-> "none"]
        ELSE IF e = "HTTPError"
        THEN [ret |-> PyList(<< >>), calls |-> <<"showerror HTTP Error">>,
              exc |-> "none"]
        ELSE IF e \in ExceptionClasses
        THEN [ret |-> PyList(<< >>), calls |-> <<"showerror Error">>,
              exc |-> "none"]
        ELSE [ret |-> PyList(<< >>), calls |-> << >>, exc |-> e]

\* coin.get("quote", {}).get("USD", {}) raises AttributeError: coin is not
\* an object, or its quote is not one
RowRaises(coin) ==
    \/ coin.json # "object"
    \/ ~IsNone(coin.quote) /\ coin.quote[1].json # "object"

\* the row refresh builds for one coin
Row(coin) ==
    LET q == IF IsNone(coin.quote) THEN EmptyQuote ELSE coin.quote[1]
    IN  [rank |-> coin.cmc_rank,
         symbol |-> coin.symbol,
         name |-> coin.name,
         price |-> q.price,
         pct24h |-> q.percent_change_24h,
         pct7d |-> q.percent_change_7d,
         mcap |-> q.market_cap,
         vol24h |-> q.volume_24h,
         updated |-> Or(q.last_updated, coin.last_updated)]

----------------------------------------------------------------------------
(* apply_filter *)

\* How far a method got: the App then, the calls it made in order, the
\* exception that left it ("none"), and the dialog it waits in: "input"
\* (line 160), "fetch" (lines 46 and 48) or "none" (it is over)
Done(self, calls) ==
    [self |-> self, calls |-> calls, exc |-> "none", wait |-> "none"]

Raise(self, calls, exc) ==
    [self |-> self, calls |-> calls, exc |-> exc, wait |-> "none"]

Wait(self, calls, wait) ==
    [self |-> self, calls |-> calls, exc |-> "none", wait |-> wait]

\* matches without .lower() on the row's text
matchesNoLower(row, query) ==
    IF query = << >> THEN TRUE
    ELSE Contains(Format(row.symbol) \o <<" ">> \o Format(row.name), query)

\* query is already stripped and lowered
matches(row, query) ==
    IF query = << >> THEN TRUE
    ELSE LET hay == Lower(Format(row.symbol) \o <<" ">> \o Format(row.name))
         IN  Contains(hay, query)

\* Key with the None test negated
KeyNoneFirst(r, col) == <<~IsNone(r[col]), r[col]>>

\* the sort key (r[col] is None, r[col])
Key(r, col) == <<IsNone(r[col]), r[col]>>

\* k1 < k2 for two keys, as tuples compare: the first position where
\* they differ (by ==) decides, False < True, and an int and a str that
\* meet there raise TypeError
KeyRaises(k1, k2) ==
    k1[1] = k2[1] /\ k1[2] # k2[2] /\ k1[2][1].type # k2[2][1].type

KeyLess(k1, k2) ==
    IF k1[1] # k2[1] THEN k2[1]
    ELSE IF k1[2] = k2[2] THEN FALSE
    ELSE IF k1[2][1].type = "str" THEN StrLess(k1[2][1].str, k2[2][1].str)
    ELSE k1[2][1].num < k2[2][1].num

\* list.sort raises TypeError: to order the list it has to compare, among
\* the rows that have a value, a greatest one of one type with a smallest
\* one of the other, whatever the order it takes the rows in
SortRaises(rows, col) ==
    \E i, j \in 1..Len(rows) : KeyRaises(Key(rows[i], col), Key(rows[j], col))

\* r goes behind every row it is not smaller than
RECURSIVE Insert(_, _, _)
Insert(r, sorted, col) ==
    IF sorted = << >> THEN <<r>>
    ELSE IF KeyLess(Key(r, col), Key(Head(sorted), col))
    THEN <<r>> \o sorted
    ELSE <<Head(sorted)>> \o Insert(r, Tail(sorted), col)

RECURSIVE Sorted(_, _)
Sorted(rows, col) ==
    IF rows = << >> THEN << >>
    ELSE Insert(rows[Len(rows)], Sorted(SubSeq(rows, 1, Len(rows) - 1), col),
                col)

\* Sort that sorts ascending and then reverses the result
SortThenReverse(rows, col, desc) ==
    IF desc THEN Reverse(Sorted(rows, col)) ELSE Sorted(rows, col)

\* list.sort(key=..., reverse=desc): a stable sort; with reverse the list
\* is reversed, sorted, and reversed back
Sort(rows, col, desc) ==
    IF desc THEN Reverse(Sorted(Reverse(rows), col)) ELSE Sorted(rows, col)

\* the list `filtered` before it is sorted
Matching(rows, text) ==
    SelectSeq(rows, LAMBDA r : matches(r, Lower(Strip(text))))

\* the list `filtered` once sorted
Filtered(rows, text, sort) == Sort(Matching(rows, text), sort[1], sort[2])

\* the tag of a row: a str that is compared with 0 raises, and the tag
\* stays "neu"
Tag(r) ==
    IF IsNone(r.pct24h) \/ r.pct24h[1].type # "int" THEN "neu"
    ELSE IF r.pct24h[1].num >= 0 THEN "pos" ELSE "neg"

\* the children of the tree after apply_filter
Rendered(rows, text, sort) ==
    LET filtered == Filtered(rows, text, sort)
    IN  [i \in 1..Len(filtered) |->
            [values |-> filtered[i], tags |-> Tag(filtered[i])]]

\* apply_filter sorting self.rows_raw itself
apply_filterInPlace(self) ==
    IF SortRaises(self.rows_raw, self.current_sort[1])
    THEN Raise(self, <<"apply_filter">>, "TypeError")
    ELSE Done([self EXCEPT
                  !.rows_raw = Sort(@, self.current_sort[1],
                                    self.current_sort[2]),
                  !.tree = Rendered(self.rows_raw, self.search_var,
                                    self.current_sort)],
              <<"apply_filter">>)

\* self is the App: its fields and the timers Tk holds for it.  The sort
\* (line 196) comes before the tree is touched (line 199).
apply_filter(self) ==
    IF SortRaises(Matching(self.rows_raw, self.search_var),
                  self.current_sort[1])
    THEN Raise(self, <<"apply_filter">>, "TypeError")
    ELSE Done([self EXCEPT !.tree = Rendered(self.rows_raw, self.search_var,
                                             self.current_sort)],
              <<"apply_filter">>)

----------------------------------------------------------------------------
(* The App *)

\* the texts typed into the Limit, Search and Auto-refresh entries
LimitTexts == {DEFAULT_LIMIT, <<"x">>}

SearchTexts == {<< >>, <<" ", "A", "b">>}

\* the headings clicked
Clicked == {"rank", "symbol"}

AutoTexts ==
    {<<"0">>, <<"-", "5">>, <<"x">>, <<"3", "0", "0", "0", "0">>,
     <<"6", "0", "0", "0", "0">>}

\* the id self.after returns
NewId(self) ==
    CHOOSE n \in 1..(Cardinality(self.timers) + 2) :
        /\ Some(n) # self.after_id
        /\ \A t \in self.timers : t.id # n
        /\ \A m \in 1..(n - 1) :
              Some(m) = self.after_id \/ \E t \in self.timers : t.id = m

\* self.after(ms, _tick); the id is returned in .id
after(self, ms) ==
    [self |-> [self EXCEPT !.timers = @ \cup {[id |-> NewId(self), ms |-> ms]}],
     id |-> NewId(self)]

after_cancel(self, id) ==
    [self EXCEPT !.timers = {t \in @ : t.id # id}]

\* the rows appended before the first item that cannot be read
RECURSIVE RowsOf(_)
RowsOf(items) ==
    IF items = << >> \/ RowRaises(Head(items)) THEN << >>
    ELSE <<Row(Head(items))>> \o RowsOf(Tail(items))

\* refresh from line 164, with what fetch_listings returned
refresh_rest(self, data) ==
    LET cleared == [self EXCEPT !.rows_raw = << >>]
        rows == RowsOf(data.items)
        filled == [self EXCEPT !.rows_raw = rows]
    IN  IF data.type # "list" THEN Raise(cleared, << >>, "TypeError")
        ELSE IF Len(rows) < Len(data.items)
        THEN Raise(filled, << >>, "AttributeError")
        ELSE apply_filter(filled)

\* refresh from line 163, f being how fetch_listings ended: up to the
\* return of refresh or to the dialog of fetch_listings
refresh_fetched(self, f) ==
    IF f.exc # "none" THEN Raise(self, <<"fetch_listings">>, f.exc)
    ELSE IF f.calls # << >>
    THEN Wait(self, <<"fetch_listings">> \o f.calls, "fetch")
    ELSE [refresh_rest(self, f.ret) EXCEPT !.calls = <<"fetch_listings">> \o @]

\* refresh up to its return or to its first dialog
refresh(self, limit_text, resp) ==
    IF ~ParseInt(limit_text).ok
    THEN Wait(self, <<"showerror Input Error">>, "input")
    ELSE refresh_fetched(self, fetch_listings(ParseInt(limit_text).val, resp))

\* refresh_resumed that empties the table after the Input Error dialog
refresh_resumedClearing(self, wait) ==
    apply_filter([self EXCEPT !.rows_raw = << >>])

\* refresh from the answer to its dialog: line 161 returns; line 49
\* returns [] to line 163
refresh_resumed(self, wait) ==
    IF wait = "input" THEN Done(self, << >>)
    ELSE refresh_rest(self, PyList(<< >>))

\* sort_by that keeps the direction when the column changes
sort_byKeepDirection(self, col) ==
    LET desc == IF col = self.current_sort[1] THEN ~self.current_sort[2]
                ELSE self.current_sort[2]
    IN  apply_filter([self EXCEPT !.current_sort = <<col, desc>>])

sort_by(self, col) ==
    LET desc == IF col = self.current_sort[1] THEN ~self.current_sort[2]
                ELSE FALSE
    IN  apply_filter([self EXCEPT !.current_sort = <<col, desc>>])

\* apply_auto_refresh that does not cancel the previous schedule
apply_auto_refreshNoCancel(self, auto_text) ==
    LET parsed == ParseInt(auto_text)
        ms == IF parsed.ok THEN parsed.val ELSE 0
        armed == after(self, ms)
    IN  IF ms > 0
        THEN Done([armed.self EXCEPT !.after_id = Some(armed.id)], <<"after">>)
        ELSE Done(self, << >>)

apply_auto_refresh(self, auto_text) ==
    LET cancelled ==
            IF ~IsNone(self.after_id)
            THEN [after_cancel(self, self.after_id[1]) EXCEPT !.after_id = None]
            ELSE self
        parsed == ParseInt(auto_text)
        ms == IF parsed.ok THEN parsed.val ELSE 0
        armed == after(cancelled, ms)
        calls == IF ~IsNone(self.after_id) THEN <<"after_cancel">> ELSE << >>
    IN  IF ms > 0
        THEN Done([armed.self EXCEPT !.after_id = Some(armed.id)],
                  calls \o <<"after">>)
        ELSE Done(cancelled, calls)

\* line 249 once refresh is back as r: nothing when refresh waits in a
\* dialog or was left by an exception
Rearm(r, ms) ==
    LET armed == after(r.self, ms)
    IN  IF r.wait # "none" \/ r.exc # "none" THEN r
        ELSE Done([armed.self EXCEPT !.after_id = Some(armed.id)],
                  r.calls \o <<"after">>)

\* the timer t fires: Tk drops it and runs the _tick that was armed with it
tick(self, t, limit_text, resp) ==
    Rearm(refresh([self EXCEPT !.timers = @ \ {t}], limit_text, resp), t.ms)

\* _tick from the answer to the dialog of its refresh
tick_resumed(self, wait, ms) == Rearm(refresh_resumed(self, wait), ms)

\* the search text is written: the trace runs apply_filter
search_write(self, text) == apply_filter([self EXCEPT !.search_var = text])

\* the fields as lines 147-148 set them, before the first refresh
Blank ==
    [rows_raw |-> << >>, current_sort |-> <<"rank", FALSE>>,
     search_var |-> << >>, tree |-> << >>, after_id |-> None, timers |-> {}]

\* line 151, begun being the first refresh up to its return or dialog: the
\* dialog is answered and refresh goes on
init_refreshed(begun) ==
    IF begun.wait = "none" THEN begun
    ELSE [refresh_resumed(begun.self, begun.wait)
             EXCEPT !.calls = begun.calls \o @]

\* lines 152-153, loaded being how the first refresh ended
init_rest(loaded) ==
    IF loaded.exc # "none" THEN loaded
    ELSE [apply_auto_refresh([loaded.self EXCEPT !.after_id = None],
                             AUTO_REFRESH_MS)
             EXCEPT !.calls = loaded.calls \o @]

\* __init__ up to mainloop.  No timer is pending yet, so nothing runs
\* while the first refresh waits in a dialog; an exception that leaves the
\* first refresh leaves __init__.
New(resp) ==
    init_rest(init_refreshed(refresh(Blank, DEFAULT_LIMIT, resp)))

----------------------------------------------------------------------------
(* The state machine *)

Self ==
    [rows_raw |-> rows_raw, current_sort |-> current_sort,
     search_var |-> search_var, tree |-> tree, after_id |-> after_id,
     timers |-> timers]

\* The step that was taken last: the handler it belongs to, whether it
\* started the handler ("run") or took it up at the answer to its dialog
\* ("answer"), whether the handler is over with it, the handler's argument
\* and the texts it read, the interval of the timer that fired, how the
\* fetch_listings of its request ended ("none": no request), the calls of
\* the step, the calls of the handler so far and the exception that left
\* the handler.
Event(op, step, r, col, text, limit_text, ms, kind, before) ==
    [op |-> op, step |-> step, done |-> r.wait = "none", col |-> col,
     text |-> text, limit_text |-> limit_text, ms |-> ms,
     kind |-> kind,
     calls |-> r.calls, all |-> before \o r.calls, exc |-> r.exc]

\* The App becomes r.self.  A handler that waits in a dialog goes on top
\* of the open dialogs, with what it needs to go on.
Becomes(r, e, open) ==
    /\ rows_raw' = r.self.rows_raw
    /\ current_sort' = r.self.current_sort
    /\ search_var' = r.self.search_var
    /\ tree' = r.self.tree
    /\ after_id' = r.self.after_id
    /\ timers' = r.self.timers
    /\ dialogs' = IF r.wait = "none" THEN open
                  ELSE <<[op |-> e.op, wait |-> r.wait, ms |-> e.ms,
                          limit_text |-> e.limit_text, kind |-> e.kind,
                          all |-> e.all]>> \o open
    /\ ev' = e

\* the step of a handler that got as far as r
Step(op, step, r, col, text, limit_text, ms, kind, before, open) ==
    Becomes(r, Event(op, step, r, col, text, limit_text, ms, kind, before),
            open)

\* the App is r.self and the last step is e
Starts(r, e) ==
    /\ rows_raw = r.self.rows_raw
    /\ current_sort = r.self.current_sort
    /\ search_var = r.self.search_var
    /\ tree = r.self.tree
    /\ after_id = r.self.after_id
    /\ timers = r.self.timers
    /\ dialogs = << >>
    /\ ev = e

\* __init__ on resp, as a step
init_event(r, resp) ==
    Event("init", "run", r, "", AUTO_REFRESH_MS, DEFAULT_LIMIT, 0,
          Outcome(resp), << >>)

init_step(r, resp) == Starts(r, init_event(r, resp))

\* the responses on which __init__ returns
InitResponses == {resp \in Responses : New(resp).exc = "none"}

\* the App as __init__ leaves it on one of resps
InitOn(resps) ==
    \E resp \in resps : init_step(New(resp), resp)

Init == InitOn(InitResponses)

\* what the request of a refresh can meet: refresh returns before the
\* request when the Limit text is no integer (line 161)
Met(limit_text, resps) ==
    IF ParseInt(limit_text).ok THEN resps ELSE {NoResponse}

\* the Limit text a refresh reads: the user cannot edit it while a dialog
\* is open
LimitNow == IF dialogs = << >> THEN LimitTexts ELSE {Head(dialogs).limit_text}

\* the Refresh button, with one of limit_texts in the Limit entry and one
\* of resps coming back
RefreshOn(limit_texts, resps) ==
    /\ dialogs = << >>
    /\ \E limit_text \in limit_texts :
       \E resp \in Met(limit_text, resps) :
          Step("refresh", "run", refresh(Self, limit_text, resp), "", << >>,
               limit_text, 0, Outcome(resp), << >>, dialogs)

Refresh == RefreshOn(LimitTexts, Responses)

\* one of texts is written into the Search entry
SearchWriteOn(texts) ==
    /\ dialogs = << >>
    /\ \E text \in texts :
          Step("search", "run", search_write(Self, text), "", text, << >>, 0,
               "none", << >>, dialogs)

SearchWrite == SearchWriteOn(SearchTexts)

\* a click on the heading of one of cols
SortByOn(cols) ==
    /\ dialogs = << >>
    /\ \E col \in cols :
          Step("sort_by", "run", sort_by(Self, col), col, << >>, << >>, 0,
               "none", << >>, dialogs)

SortBy == SortByOn(Clicked)

\* the Apply button
ApplyAutoRefresh ==
    /\ dialogs = << >>
    /\ \E auto_text \in AutoTexts :
          Step("apply_auto_refresh", "run",
               apply_auto_refresh(Self, auto_text), "", auto_text, << >>, 0,
               "none", << >>, dialogs)

\* a pending timer fires, between two handlers or while a dialog is open
Tick ==
    \E t \in timers, limit_text \in LimitNow :
    \E resp \in Met(limit_text, Responses) :
        Step("tick", "run", tick(Self, t, limit_text, resp), "", << >>,
             limit_text, t.ms, Outcome(resp), << >>, dialogs)

\* the handler that waits in the dialog d goes on
resumed(self, d) ==
    IF d.op = "tick" THEN tick_resumed(self, d.wait, d.ms)
    ELSE refresh_resumed(self, d.wait)

\* the dialog on top is answered and the handler that showed it goes on
Answer ==
    /\ dialogs # << >>
    /\ Step(Head(dialogs).op, "answer", resumed(Self, Head(dialogs)), "",
            << >>, Head(dialogs).limit_text, Head(dialogs).ms,
            Head(dialogs).kind, Head(dialogs).all, Tail(dialogs))

Next == Refresh \/ SearchWrite \/ SortBy \/ ApplyAutoRefresh \/ Tick \/ Answer

Spec == Init /\ [][Next]_vars

----------------------------------------------------------------------------
(* The table on its own: the App with requests that bring a list of      *)
(* coins, the search texts of PipeTexts and clicks on every heading      *)

PipeTexts ==
    {<< >>, <<"A", "b">>, <<" ", "b">>, <<"b", " ", "a">>, <<" ", "A", "b">>}

CoinResponses ==
    [kind : {"ok"}, data : Payloads]
        \cup [kind : {"badvalue"}, data : StrRankPayloads]

PipeInit == InitOn(CoinResponses \cap InitResponses)

PipeRefresh == RefreshOn({DEFAULT_LIMIT}, CoinResponses)

PipeSearchWrite == SearchWriteOn(PipeTexts)

PipeSortBy == SortByOn(Columns)

PipeNext == PipeRefresh \/ PipeSearchWrite \/ PipeSortBy

PipeSpec == PipeInit /\ [][PipeNext]_vars

----------------------------------------------------------------------------
(* Properties *)

\* the calls that are among names, in order
Only(calls, names) == SelectSeq(calls, LAMBDA c : c \in names)

\* the last step made the call
Called(name) == \E i \in 1..Len(ev.calls) : ev.calls[i] = name

SortCol == current_sort[1]

SortDesc == current_sort[2]

\* the sort-key value of the i-th rendered row
Shown(i) == tree[i].values[SortCol]

\* where a rendered row stands in rows_raw (a response's coins are distinct)
Pos(r) == CHOOSE k \in 1..Len(rows_raw) : rows_raw[k] = r

\* symbol, a single space, and name of a row
Hay(r) == r.symbol[1].str \o <<" ">> \o r.name[1].str

\* the tree holds what the last apply_filter produced: the last handler
\* was not left by an exception
Produced == ev.exc = "none"

IsRefresh(e) == e.op \in {"refresh", "tick"}

LimitOk(e) == ParseInt(e.limit_text).ok

\* how fetch_listings ends on the responses that are failures
FailureOutcomes == {Outcome(resp) : resp \in {r \in Responses : r.kind \in FailureKinds}}

\* C1: at most one refresh timer is pending; after apply_auto_refresh with
\* a text that is not an integer > 0 none is pending, and after
\* apply_auto_refresh with an interval > 0 exactly one is, armed for that
\* interval, whatever was pending before.
C1_OneTimer ==
    /\ Cardinality(timers) <= 1
    /\ ev.op = "apply_auto_refresh" =>
          LET ms == ParseInt(ev.text)
          IN  IF ms.ok /\ ms.val > 0
              THEN timers = {[id |-> after_id[1], ms |-> ms.val]}
              ELSE timers = {} /\ after_id = None

\* C1 witness: an interval of 30000 was applied over a pending timer
C1_Witness ==
    /\ ev.op = "apply_auto_refresh"
    /\ ev.text = <<"3", "0", "0", "0", "0">>
    /\ Called("after_cancel")
    /\ \E t \in timers : t.ms = 30000

\* C2 as claimed: in the sequence apply_filter produced, rows whose
\* sort-key value is null count as smaller than every other row: ascending
\* they come before all rows with a value, descending after them.
C2_NullsSmaller ==
    \A i, j \in 1..Len(tree) :
        (Produced /\ i < j) =>
            IF SortDesc THEN ~(IsNone(Shown(i)) /\ ~IsNone(Shown(j)))
            ELSE ~(~IsNone(Shown(i)) /\ IsNone(Shown(j)))

\* C2 amended: in the sequence apply_filter produced, rows whose sort-key
\* value is null count as larger than every other row: ascending they come
\* after all rows with a value, descending before them.
C2_NullsLarger ==
    \A i, j \in 1..Len(tree) :
        (Produced /\ i < j) =>
            IF SortDesc THEN ~(~IsNone(Shown(i)) /\ IsNone(Shown(j)))
            ELSE ~(IsNone(Shown(i)) /\ ~IsNone(Shown(j)))

\* C2 witness: sorted by price ascending, a row with a price stands before
\* a row without one that came first in rows_raw
C2_Witness ==
    /\ Produced
    /\ current_sort = <<"price", FALSE>>
    /\ Len(tree) = 2
    /\ ~IsNone(Shown(1)) /\ IsNone(Shown(2))
    /\ Pos(tree[2].values) < Pos(tree[1].values)

\* the rows of rows_raw that have query as a case-insensitive substring of
\* symbol + " " + name, or all of them when query is empty
Retained(query) ==
    {k \in 1..Len(rows_raw) :
        query = << >> \/ Contains(Lower(Hay(rows_raw[k])), Lower(query))}

\* the rendered rows are exactly the rows of rows_raw that query retains
ShowsRetained(query) ==
    /\ \A k \in 1..Len(rows_raw) :
          (\E i \in 1..Len(tree) : tree[i].values = rows_raw[k])
              <=> k \in Retained(query)
    /\ Len(tree) = Cardinality(Retained(query))

\* C3 as claimed: in the sequence apply_filter produced, a row is retained
\* iff filter_query is empty or a case-insensitive substring of
\* symbol + " " + name.
C3_FilterAsTyped == Produced => ShowsRetained(search_var)

\* C3 amended: in the sequence apply_filter produced, a row is retained
\* iff filter_query without its leading and trailing whitespace is empty
\* or a case-insensitive substring of symbol + " " + name.
C3_FilterStripped == Produced => ShowsRetained(Strip(search_var))

\* C3 witness: a query in mixed case keeps some rows and drops others
C3_Witness ==
    /\ Produced
    /\ search_var = <<"A", "b">>
    /\ 0 < Len(tree) /\ Len(tree) < Len(rows_raw)

\* C4 as claimed: when the request of a refresh fails, fetch_listings
\* returns the empty list, and once that refresh is over rows_raw and the
\* tree are empty, and no exception left refresh.
C4_FailureEmpties ==
    (ev.op \in {"init", "refresh", "tick"} /\ ev.done
        /\ ev.kind \in FailureOutcomes) =>
        /\ \A resp \in Responses :
              Outcome(resp) = ev.kind =>
                  fetch_listings(ParseInt(ev.limit_text).val, resp).ret
                      = PyList(<< >>)
        /\ rows_raw = << >>
        /\ tree = << >>
        /\ ev.exc = "none"

\* C5 as claimed: a refresh while the limit text is not an integer shows a
\* notification and leaves rows_raw and the tree empty, and no exception
\* leaves it.
C5_InputErrorEmpties ==
    (IsRefresh(ev) /\ ev.done /\ ~LimitOk(ev)) =>
        /\ Only(ev.all, {"showerror Input Error"}) = <<"showerror Input Error">>
        /\ rows_raw = << >>
        /\ tree = << >>
        /\ ev.exc = "none"

\* C5 amended: a refresh while the limit text is not an integer shows a
\* notification, makes no request and no render, and leaves rows_raw and
\* the tree as they were, up to its dialog and from the answer to its
\* return, and no exception leaves it.
C5_InputErrorKeeps ==
    [][(IsRefresh(ev') /\ ~LimitOk(ev')) =>
          /\ Only(ev'.all, {"showerror Input Error", "fetch_listings",
                            "apply_filter"})
                = <<"showerror Input Error">>
          /\ rows_raw' = rows_raw
          /\ tree' = tree
          /\ ev'.exc = "none"]_vars

\* C5 witness: the Refresh button met a limit that is not an integer while
\* rows were shown, and has returned after its dialog
C5_Witness ==
    /\ ev.op = "refresh" /\ ev.step = "answer" /\ ev.done
    /\ ev.limit_text = <<"x">>
    /\ rows_raw # << >> /\ tree # << >>

\* the steps of a handler that C6 counts
Steps(calls) == Only(calls, {"fetch_listings", "apply_filter", "after"})

\* C6 as claimed, for the fires that read an integer limit text: once the
\* fire is over it has made one request, then one apply_filter, then one
\* after, and a timer for the interval of the one that fired is pending
\* and held in _after_id.
C6_TickFetchesRenders ==
    (ev.op = "tick" /\ ev.done /\ LimitOk(ev)) =>
        /\ Steps(ev.all) = <<"fetch_listings", "apply_filter", "after">>
        /\ \E t \in timers : t.ms = ev.ms /\ after_id = Some(t.id)

\* C7: the App starts sorted by rank ascending; sort_by(C) on the current
\* key keeps it and flips the direction, and on another key sets C
\* ascending.
C7_SortToggle ==
    /\ current_sort = <<"rank", FALSE>>
    /\ [][ev'.op = "sort_by" =>
            current_sort' = IF ev'.col = current_sort[1]
                            THEN <<ev'.col, ~current_sort[2]>>
                            ELSE <<ev'.col, FALSE>>]_vars

\* C7 witness: sort_by(symbol) has been run and the sort is symbol
\* ascending
C7_Witness == ev.op = "sort_by" /\ current_sort = <<"symbol", FALSE>>

\* C8: in the sequence apply_filter produced, two rows with equal sort-key
\* value (null included) stand in the order they have in rows_raw,
\* ascending and descending.
C8_Stable ==
    \A i, j \in 1..Len(tree) :
        (Produced /\ i < j /\ Shown(i) = Shown(j)) =>
            Pos(tree[i].values) < Pos(tree[j].values)

\* C8 witness: descending, two rows with the same sort-key value are
\* rendered
C8_Witness ==
    /\ Produced
    /\ SortDesc
    /\ \E i, j \in 1..Len(tree) : i < j /\ Shown(i) = Shown(j)

\* C9: refresh and timer fires leave the search text and the sort alone;
\* apply_filter (run by the search trace) and sort_by leave rows_raw and
\* the timer alone; apply_auto_refresh leaves everything but the timer
\* alone.
C9_Frames ==
    [][/\ IsRefresh(ev') => UNCHANGED <<search_var, current_sort>>
       /\ ev'.op \in {"search", "sort_by"} =>
             UNCHANGED <<rows_raw, timers, after_id>>
       /\ ev'.op = "apply_auto_refresh" =>
             UNCHANGED <<rows_raw, search_var, current_sort, tree>>]_vars

\* C9 witness: sort_by has put the rendered rows in another order than
\* rows_raw while a timer is pending
C9_Witness ==
    /\ ev.op = "sort_by"
    /\ timers # {}
    /\ Len(tree) = Len(rows_raw)
    /\ \E i \in 1..Len(tree) : tree[i].values # rows_raw[i]

\* C10 as claimed: after every handler that is over, the tree holds
\* apply_filter's result for the current rows_raw, search text and sort.
C10_ViewConsistent ==
    ev.done => tree = Rendered(rows_raw, search_var, current_sort)

====
